---------------------------- MODULE Spec2Model ----------------------------
(***************************************************************************)
(* Model of src/main.py: split a PDF into per-chapter PDFs from a table of *)
(* contents of start pages.                                                *)
(*                                                                         *)
(* Text (titles, file names) is a sequence of one-character strings, so    *)
(* that the regular expressions of sanitize_filename and infer_filename    *)
(* are computed character by character.  A page of the PDF is its          *)
(* zero-based index; a chapter file is the sequence of the pages it holds. *)
(***************************************************************************)
EXTENDS Integers, Sequences, FiniteSets, TLC

(***************************************************************************)
(* Bounds of the model.                                                    *)
(***************************************************************************)
MaxToc == 3        \* most TOC entries of a run (Spec)
MaxStart == 4      \* book start pages are drawn from -1..MaxStart
MaxPages == 4      \* the PDF has 1..MaxPages pages
MaxOffset == 2     \* --page-offset is drawn from -1..MaxOffset
MaxTitleLen == 4   \* longest title of SpecName, in characters
NormSize == 4      \* most keys / items / lines of a TOC source (SpecNorm)

(***************************************************************************)
(* Characters and the character classes of Python's re module.             *)
(***************************************************************************)
Digits == <<"0", "1", "2", "3", "4", "5", "6", "7", "8", "9">>

IsDigit(c) == \E k \in 1..Len(Digits) : Digits[k] = c

DigitVal(c) == (CHOOSE k \in 1..Len(Digits) : Digits[k] = c) - 1

IsSpace(c) == c \in {" ", "\t"}

Letters == {"a", "b", "c", "d", "e", "f", "g", "h", "i", "j", "k", "l", "m",
            "n", "o", "p", "q", "r", "s", "t", "u", "v", "w", "x", "y", "z",
            "A", "B", "C", "D", "E", "F", "G", "H", "I", "J", "K", "L", "M",
            "N", "O", "P", "Q", "R", "S", "T", "U", "V", "W", "X", "Y", "Z"}

IsWord(c) == IsDigit(c) \/ c \in Letters \/ c = "_"

(***************************************************************************)
(* str.strip(): drop leading and trailing whitespace.                      *)
(***************************************************************************)
RECURSIVE LStrip(_)
LStrip(s) == IF s # <<>> /\ IsSpace(Head(s)) THEN LStrip(Tail(s)) ELSE s

RECURSIVE RStrip(_)
RStrip(s) ==
  IF s # <<>> /\ IsSpace(s[Len(s)]) THEN RStrip(SubSeq(s, 1, Len(s) - 1)) ELSE s

Strip(s) == RStrip(LStrip(s))

(***************************************************************************)
(* re.sub(r"\s+", "_", s): every maximal run of whitespace becomes one "_".*)
(***************************************************************************)
RECURSIVE CollapseSpace(_)
CollapseSpace(s) ==
  IF s = <<>> THEN <<>>
  ELSE IF IsSpace(Head(s)) THEN <<"_">> \o CollapseSpace(LStrip(s))
  ELSE <<Head(s)>> \o CollapseSpace(Tail(s))

(***************************************************************************)
(* sanitize_filename                                                       *)
(***************************************************************************)
MaxNameLen == 180

KeptChar(c) == IsWord(c) \/ IsSpace(c) \/ c = "-" \/ c = "."

Truncate(s) == IF Len(s) > MaxNameLen THEN SubSeq(s, 1, MaxNameLen) ELSE s

sanitize_filename(name) ==
  Truncate(CollapseSpace(Strip(SelectSeq(name, KeptChar))))

(***************************************************************************)
(* infer_filename: re.match(r"^(\d+)\s+(.+)$", title.strip()).             *)
(* The greedy \d+ takes every leading digit (the next character must be    *)
(* whitespace), the greedy \s+ takes the whole run of whitespace unless    *)
(* nothing would be left for .+, in which case it gives one back.          *)
(***************************************************************************)
RECURSIVE LeadingDigits(_)
LeadingDigits(s) ==
  IF s # <<>> /\ IsDigit(Head(s)) THEN 1 + LeadingDigits(Tail(s)) ELSE 0

RECURSIVE LeadingSpaces(_)
LeadingSpaces(s) ==
  IF s # <<>> /\ IsSpace(Head(s)) THEN 1 + LeadingSpaces(Tail(s)) ELSE 0

Drop(s, n) == SubSeq(s, n + 1, Len(s))

\* what \s+ consumes after the digits; 0 when the pattern does not match
SpaceTaken(afterDigits) ==
  LET w == LeadingSpaces(afterDigits) IN
  IF w = 0 THEN 0
  ELSE IF w < Len(afterDigits) THEN w
  ELSE w - 1

ChapterMatch(t) ==
  LeadingDigits(t) >= 1 /\ SpaceTaken(Drop(t, LeadingDigits(t))) >= 1

\* m.group(1) and m.group(2)
ChapterDigits(t) == SubSeq(t, 1, LeadingDigits(t))

ChapterRest(t) ==
  LET a == Drop(t, LeadingDigits(t)) IN Drop(a, SpaceTaken(a))

\* int(m.group(1))
RECURSIVE ParseInt(_)
ParseInt(ds) ==
  IF ds = <<>> THEN 0
  ELSE 10 * ParseInt(SubSeq(ds, 1, Len(ds) - 1)) + DigitVal(ds[Len(ds)])

\* str(n) for n >= 0
RECURSIVE DecStr(_)
DecStr(n) ==
  IF n < 10 THEN <<Digits[n + 1]>> ELSE DecStr(n \div 10) \o <<Digits[(n % 10) + 1]>>

\* f"{n:02d}" for n >= 0
Fmt02(n) == IF n < 10 THEN <<"0">> \o DecStr(n) ELSE DecStr(n)

PdfExt == <<".", "p", "d", "f">>

\* slip: the Part name leaves the position out
infer_filename_no_position(idx, title) ==
  LET t == Strip(title) IN
  IF ChapterMatch(t)
  THEN <<"C", "h">> \o Fmt02(ParseInt(ChapterDigits(t))) \o <<"_">>
         \o sanitize_filename(ChapterRest(t)) \o PdfExt
  ELSE <<"P", "a", "r", "t", "_">> \o sanitize_filename(title) \o PdfExt

infer_filename(idx, title) ==
  LET t == Strip(title) IN
  IF ChapterMatch(t)
  THEN <<"C", "h">> \o Fmt02(ParseInt(ChapterDigits(t))) \o <<"_">>
         \o sanitize_filename(ChapterRest(t)) \o PdfExt
  ELSE <<"P", "a", "r", "t", "_">> \o Fmt02(idx) \o <<"_">>
         \o sanitize_filename(title) \o PdfExt

(***************************************************************************)
(* int(x) of a text field (load_toc_from_tsv): optional surrounding        *)
(* whitespace, an optional sign, then decimal digits; anything else raises *)
(* ValueError.                                                             *)
(***************************************************************************)
IsSign(c) == c = "-" \/ c = "+"

Unsigned(t) == IF t # <<>> /\ IsSign(Head(t)) THEN Tail(t) ELSE t

IntTextOk(text) ==
  LET u == Unsigned(Strip(text)) IN
  u # <<>> /\ \A k \in 1..Len(u) : IsDigit(u[k])

IntOfText(text) ==
  LET t == Strip(text) IN
  IF t # <<>> /\ Head(t) = "-" THEN 0 - ParseInt(Unsigned(t))
  ELSE ParseInt(Unsigned(t))

\* str(n), as the f-strings of the index file format an int
IntStr(n) == IF n < 0 THEN <<"-">> \o DecStr(0 - n) ELSE DecStr(n)

(***************************************************************************)
(* entries.sort(key=lambda x: x[1]): list.sort is stable, an entry goes    *)
(* behind every entry already placed whose start page is not larger.       *)
(* An entry is <<title, start>>.                                           *)
(***************************************************************************)
\* slip: an entry goes before the entries of the same start page
RECURSIVE InsertByStartUnstable(_, _)
InsertByStartUnstable(s, e) ==
  IF s = <<>> THEN <<e>>
  ELSE IF s[Len(s)][2] < e[2] THEN Append(s, e)
  ELSE Append(InsertByStartUnstable(SubSeq(s, 1, Len(s) - 1), e), s[Len(s)])

RECURSIVE InsertByStart(_, _)
InsertByStart(s, e) ==
  IF s = <<>> THEN <<e>>
  ELSE IF s[Len(s)][2] <= e[2] THEN Append(s, e)
  ELSE Append(InsertByStart(SubSeq(s, 1, Len(s) - 1), e), s[Len(s)])

RECURSIVE SortByStart(_)
SortByStart(entries) ==
  IF entries = <<>> THEN <<>>
  ELSE InsertByStart(SortByStart(SubSeq(entries, 1, Len(entries) - 1)),
                     entries[Len(entries)])

(***************************************************************************)
(* The parsed JSON of load_toc_from_json.                                  *)
(*   list form: a sequence of items [ok, title, start]; ok is FALSE for an *)
(*     item that is no dict or lacks "title" or "start";                   *)
(*   dict form: a sequence of pairs [key, kind, start, sub] in the dict's  *)
(*     order; kind "int" is a start page, kind "dict" a nested dict (sub), *)
(*     kind "bad" a value int() rejects.                                   *)
(***************************************************************************)
ListOk(items) == \A k \in 1..Len(items) : items[k].ok

ListEntries(items) == [k \in 1..Len(items) |-> <<items[k].title, items[k].start>>]

RECURSIVE DictOk(_)
DictOk(d) ==
  \A k \in 1..Len(d) :
    CASE d[k].kind = "int" -> TRUE
      [] d[k].kind = "dict" -> DictOk(d[k].sub)
      [] OTHER -> FALSE

\* load_dict: the leaves of a dict, depth first, in the dict's order
RECURSIVE load_dict(_)
load_dict(d) ==
  IF d = <<>> THEN <<>>
  ELSE (IF Head(d).kind = "dict" THEN load_dict(Head(d).sub)
        ELSE <<<<Head(d).key, Head(d).start>>>>) \o load_dict(Tail(d))

\* flatten: appends to entries; nested values go through load_dict
RECURSIVE flatten(_)
flatten(d) ==
  IF d = <<>> THEN <<>>
  ELSE (IF Head(d).kind = "dict" THEN load_dict(Head(d).sub)
        ELSE <<<<Head(d).key, Head(d).start>>>>) \o flatten(Tail(d))

(***************************************************************************)
(* load_toc_from_tsv: a line is text; blank lines and # lines are skipped. *)
(***************************************************************************)
\* str.split("\t")
RECURSIVE SplitTab(_)
SplitTab(s) ==
  IF \A k \in 1..Len(s) : s[k] # "\t" THEN <<s>>
  ELSE LET p == CHOOSE k \in 1..Len(s) :
                  s[k] = "\t" /\ \A j \in 1..(k - 1) : s[j] # "\t"
       IN <<SubSeq(s, 1, p - 1)>> \o SplitTab(Drop(s, p))

TsvSkipped(line) ==
  LET l == Strip(line) IN l = <<>> \/ Head(l) = "#"

TsvLineOk(line) ==
  LET parts == SplitTab(Strip(line)) IN
  Len(parts) >= 2 /\ IntTextOk(parts[1])

TsvEntry(line) ==
  LET parts == SplitTab(Strip(line)) IN <<Strip(parts[2]), IntOfText(parts[1])>>

TsvOk(lines) ==
  \A k \in 1..Len(lines) : TsvSkipped(lines[k]) \/ TsvLineOk(lines[k])

RECURSIVE TsvEntries(_)
TsvEntries(lines) ==
  IF lines = <<>> THEN <<>>
  ELSE (IF TsvSkipped(Head(lines)) THEN <<>> ELSE <<TsvEntry(Head(lines))>>)
       \o TsvEntries(Tail(lines))

(***************************************************************************)
(* The loaders: whether the source parses, and the TOC it yields.          *)
(***************************************************************************)
SourceOk(src) ==
  CASE src.form = "list" -> ListOk(src.items)
    [] src.form = "dict" -> DictOk(src.items)
    [] src.form = "tsv" -> TsvOk(src.items)

load_toc_from_json(src) ==
  SortByStart(IF src.form = "list" THEN ListEntries(src.items)
              ELSE flatten(src.items))

load_toc_from_tsv(src) == SortByStart(TsvEntries(src.items))

LoadToc(src) ==
  IF src.form = "tsv" THEN load_toc_from_tsv(src) ELSE load_toc_from_json(src)

(***************************************************************************)
(* split_pdf, range resolution of one TOC entry.                           *)
(***************************************************************************)
Min(a, b) == IF a < b THEN a ELSE b

\* slip: the start page taken as a zero-based index already
PdfStartOneBased(t, k, off) == t[k][2] + off

PdfStart(t, k, off) == t[k][2] + off - 1

\* slip: the chapter ends on the next chapter's first page
PdfEndOnNextStart(t, k, off, tot) ==
  Min(IF k < Len(t) THEN t[k + 1][2] + off - 1 ELSE tot - 1, tot - 1)

PdfEnd(t, k, off, tot) ==
  Min(IF k < Len(t) THEN t[k + 1][2] + off - 2 ELSE tot - 1, tot - 1)

\* slip: only the upper bound of the start is validated
StartOutOfRangeNoLower(t, k, off, tot) == PdfStart(t, k, off) >= tot

StartOutOfRange(t, k, off, tot) ==
  PdfStart(t, k, off) < 0 \/ PdfStart(t, k, off) >= tot

\* slip: an empty range (end = start - 1) is let through
EndBeforeStartAllowEmpty(t, k, off, tot) ==
  PdfEnd(t, k, off, tot) < PdfStart(t, k, off) - 1

EndBeforeStart(t, k, off, tot) == PdfEnd(t, k, off, tot) < PdfStart(t, k, off)

\* slip: the message names the zero-based index
ReportedPageZeroBased(pdf_start) == pdf_start

\* the page the out-of-range message names: {pdf_start+1}
ReportedPage(pdf_start) == pdf_start + 1

(***************************************************************************)
(* The output directory: whether it exists, its chapter files by name and  *)
(* the text of SPLIT_INDEX.tsv.  A chapter file holds pages of a document; *)
(* a file whose write failed is not complete.                              *)
(***************************************************************************)
NoFiles == [n \in {} |-> 0]

NoIndex == [exists |-> FALSE, text |-> <<>>]

Pages(s, e) == [p \in 1..(e - s + 1) |-> s + p - 1]

ChapterFile(s, e) == [doc |-> "pdf", complete |-> TRUE, pages |-> Pages(s, e)]

TornFile == [doc |-> "pdf", complete |-> FALSE, pages |-> <<>>]

PutFile(fs, name, content) == (name :> content) @@ fs

IndexHeader ==
  <<"p", "d", "f", "_", "s", "t", "a", "r", "t", "\t",
    "p", "d", "f", "_", "e", "n", "d", "\t",
    "b", "o", "o", "k", "_", "s", "t", "a", "r", "t", "\t",
    "t", "i", "t", "l", "e", "\n">>

\* slip: the rows hold the zero-based start index
IndexRowZeroBased(entry, range) ==
  IntStr(range[2]) \o <<"\t">> \o IntStr(range[3] + 1) \o <<"\t">>
    \o IntStr(entry[2]) \o <<"\t">> \o entry[1] \o <<"\n">>

IndexRow(entry, range) ==
  IntStr(range[2] + 1) \o <<"\t">> \o IntStr(range[3] + 1) \o <<"\t">>
    \o IntStr(entry[2]) \o <<"\t">> \o entry[1] \o <<"\n">>

\* the first n lines the index loop writes: zip(toc, ranges) in order
RECURSIVE IndexRows(_, _, _)
IndexRows(t, rs, n) ==
  IF n = 0 THEN <<>> ELSE IndexRows(t, rs, n - 1) \o IndexRow(t[n], rs[n])

IndexText(t, rs) == IndexHeader \o IndexRows(t, rs, Min(Len(t), Len(rs)))

NoError == [kind |-> "none", step |-> "none", title |-> <<>>, page |-> 0]

\* an exception: its kind, the step of main() that raised it, and the title
\* and 1-based page its message names
Raise(kind, step, title, page) ==
  [kind |-> kind, step |-> step, title |-> title, page |-> page]

VARIABLES
  source,       \* the parsed TOC file (--toc-json or --toc-tsv)
  total,        \* len(reader.pages)
  page_offset,  \* --page-offset
  disk0,        \* the output directory before the run
  pc,           \* where main() is
  toc,          \* the loaded TOC: a sequence of <<title, start>>
  i,            \* entries resolved so far
  ranges,       \* <<title, pdf_start, pdf_end>> of each resolved entry
  idx,          \* chapter files written so far
  disk,         \* the output directory
  error         \* the exception that ended the run

vars == <<source, total, page_offset, disk0, pc, toc, i, ranges, idx, disk, error>>

inputs == <<source, total, page_offset, disk0>>


(***************************************************************************)
(* The inputs of a run.                                                    *)
(***************************************************************************)
\* the title of the k-th item of a list-form TOC: "a", "1 a", "1 a!", ...
TitleOf(k) ==
  IF k = 1 THEN <<"a">> ELSE <<"1", " ", "a">> \o [j \in 1..(k - 2) |-> "!"]

ListItem(title, start) == [ok |-> TRUE, title |-> title, start |-> start]

ListSource(items) == [form |-> "list", items |-> items]

ListSources ==
  UNION {{ListSource([k \in 1..n |-> ListItem(TitleOf(k), f[k])]) :
            f \in [1..n -> (-1)..MaxStart]} : n \in 0..MaxToc}

OldFile == [doc |-> "old", complete |-> TRUE, pages |-> <<0>>]

OldIndex == [exists |-> TRUE, text |-> IndexHeader \o <<"9", "\t", "9", "\t", "9", "\t", "z", "\n">>]

EmptyDisk == [dir |-> FALSE, files |-> NoFiles, index |-> NoIndex]

\* the directory an earlier run left: its index and two of its chapter files
UsedDisk ==
  [dir |-> TRUE,
   files |-> PutFile(PutFile(NoFiles, infer_filename(1, <<"a">>), OldFile),
                     infer_filename(9, <<"z">>), OldFile),
   index |-> OldIndex]

Disks == {EmptyDisk, UsedDisk}

Introduction == <<"I", "n", "t", "r", "o", "d", "u", "c", "t", "i", "o", "n">>

IntelligentAgents ==
  <<"I", "n", "t", "e", "l", "l", "i", "g", "e", "n", "t", " ",
    "A", "g", "e", "n", "t", "s">>

\* the run of the module docstring: book page 1 is PDF page 17
ExampleRun ==
  [source |-> ListSource(<<ListItem(Introduction, 1), ListItem(IntelligentAgents, 34)>>),
   total |-> 600, page_offset |-> 16]

Start ==
  /\ pc = "load"
  /\ toc = <<>>
  /\ i = 0
  /\ ranges = <<>>
  /\ idx = 0
  /\ disk = disk0
  /\ error = NoError

Init ==
  /\ disk0 \in Disks
  /\ \/ /\ source \in ListSources
        /\ total \in 1..MaxPages
        /\ page_offset \in (-1)..MaxOffset
     \/ /\ source = ExampleRun.source
        /\ total = ExampleRun.total
        /\ page_offset = ExampleRun.page_offset
  /\ Start

(***************************************************************************)
(* main(): load the TOC, then split_pdf.                                   *)
(***************************************************************************)
Fail(kind, step, title, page) ==
  /\ pc' = "failed"
  /\ error' = Raise(kind, step, title, page)

\* main, lines 171-174: load_toc_from_json / load_toc_from_tsv
Load ==
  /\ pc = "load"
  /\ IF SourceOk(source)
       THEN /\ toc' = LoadToc(source)
            /\ pc' = "split"
            /\ error' = error
       ELSE /\ Fail("MalformedToc", "load", <<>>, 0)
            /\ toc' = toc
  /\ UNCHANGED <<inputs, i, ranges, idx, disk>>

\* slip: the output directory is made as split_pdf starts
OpenPdfMkdirFirst ==
  /\ pc = "split"
  /\ disk' = [disk EXCEPT !.dir = TRUE]
  /\ IF toc = <<>>
       THEN Fail("EmptyToc", "split", <<>>, 0)
       ELSE pc' = "resolve" /\ error' = error
  /\ UNCHANGED <<inputs, toc, i, ranges, idx>>

\* split_pdf, lines 111-117: open the reader, reject an empty TOC
OpenPdf ==
  /\ pc = "split"
  /\ IF toc = <<>>
       THEN Fail("EmptyToc", "split", <<>>, 0)
       ELSE pc' = "resolve" /\ error' = error
  /\ UNCHANGED <<inputs, toc, i, ranges, idx, disk>>

\* split_pdf, lines 118-131: one pass of the range loop
ResolveEntry ==
  /\ pc = "resolve"
  /\ i < Len(toc)
  /\ LET k == i + 1
         title == toc[k][1]
         pdf_start == PdfStart(toc, k, page_offset)
         pdf_end == PdfEnd(toc, k, page_offset, total)
     IN IF StartOutOfRange(toc, k, page_offset, total)
          THEN /\ Fail("OutOfRange", "resolve", title, ReportedPage(pdf_start))
               /\ UNCHANGED <<i, ranges>>
          ELSE IF EndBeforeStart(toc, k, page_offset, total)
          THEN /\ Fail("EndBeforeStart", "resolve", title, 0)
               /\ UNCHANGED <<i, ranges>>
          ELSE /\ ranges' = Append(ranges, <<title, pdf_start, pdf_end>>)
               /\ i' = k
               /\ pc' = IF k = Len(toc) THEN "mkdir" ELSE "resolve"
               /\ error' = error
  /\ UNCHANGED <<inputs, toc, idx, disk>>

\* split_pdf, line 133: outdir.mkdir(parents=True, exist_ok=True)
MakeOutdir ==
  /\ pc = "mkdir"
  /\ \E ok \in BOOLEAN :
       IF ok
         THEN /\ disk' = [disk EXCEPT !.dir = TRUE]
              /\ pc' = "write"
              /\ error' = error
         ELSE /\ Fail("OSError", "mkdir", <<>>, 0)
              /\ disk' = disk
  /\ UNCHANGED <<inputs, toc, i, ranges, idx>>

\* split_pdf, lines 135-143: one pass of the write loop.  open(.., "wb") may
\* fail and leave the directory alone; once it has truncated the file,
\* writer.write may fail and leave the file torn.
WriteOutcomes == {"written", "open fails", "write fails"}

\* slip: a failed chapter is skipped and the loop goes on
WriteChapterKeepGoing ==
  /\ pc = "write"
  /\ idx < Len(ranges)
  /\ LET k == idx + 1
         fname == infer_filename(k, ranges[k][1])
     IN \E outcome \in WriteOutcomes :
          /\ disk' = CASE outcome = "written" ->
                            [disk EXCEPT !.files =
                               PutFile(@, fname, ChapterFile(ranges[k][2], ranges[k][3]))]
                        [] outcome = "open fails" -> disk
                        [] outcome = "write fails" ->
                            [disk EXCEPT !.files = PutFile(@, fname, TornFile)]
          /\ idx' = k
          /\ pc' = IF k = Len(ranges) THEN "index" ELSE "write"
          /\ error' = error
  /\ UNCHANGED <<inputs, toc, i, ranges>>

WriteChapter ==
  /\ pc = "write"
  /\ idx < Len(ranges)
  /\ LET k == idx + 1
         fname == infer_filename(k, ranges[k][1])
     IN \E outcome \in WriteOutcomes :
          CASE outcome = "written" ->
                 /\ disk' = [disk EXCEPT !.files =
                               PutFile(@, fname, ChapterFile(ranges[k][2], ranges[k][3]))]
                 /\ idx' = k
                 /\ pc' = IF k = Len(ranges) THEN "index" ELSE "write"
                 /\ error' = error
            [] outcome = "open fails" ->
                 /\ Fail("OSError", "chapter", ranges[k][1], 0)
                 /\ UNCHANGED <<idx, disk>>
            [] outcome = "write fails" ->
                 /\ Fail("OSError", "chapter", ranges[k][1], 0)
                 /\ disk' = [disk EXCEPT !.files = PutFile(@, fname, TornFile)]
                 /\ idx' = idx
  /\ UNCHANGED <<inputs, toc, i, ranges>>

\* what a failed write of the index can leave: nothing, or its first lines
TornIndexTexts(t, rs) ==
  {<<>>} \cup {IndexHeader \o IndexRows(t, rs, n) : n \in 0..(Min(Len(t), Len(rs)) - 1)}

\* split_pdf, lines 145-151: SPLIT_INDEX.tsv, opened with mode "w"
WriteIndex ==
  /\ pc = "index"
  /\ \E outcome \in WriteOutcomes :
       CASE outcome = "written" ->
              /\ disk' = [disk EXCEPT !.index =
                            [exists |-> TRUE, text |-> IndexText(toc, ranges)]]
              /\ pc' = "done"
              /\ error' = error
         [] outcome = "open fails" ->
              /\ Fail("OSError", "index", <<>>, 0)
              /\ disk' = disk
         [] outcome = "write fails" ->
              /\ Fail("OSError", "index", <<>>, 0)
              /\ \E text \in TornIndexTexts(toc, ranges) :
                   disk' = [disk EXCEPT !.index = [exists |-> TRUE, text |-> text]]
  /\ UNCHANGED <<inputs, toc, i, ranges, idx>>

Next ==
  \/ Load
  \/ OpenPdf
  \/ ResolveEntry
  \/ MakeOutdir
  \/ WriteChapter
  \/ WriteIndex

(***************************************************************************)
(* Runs over two chapters of every pair of distinct titles up to           *)
(* MaxTitleLen characters: a digit, a blank and a punctuation mark.        *)
(***************************************************************************)
TitleAlphabet == {"1", " ", "!"}

Titles == UNION {[1..n -> TitleAlphabet] : n \in 1..MaxTitleLen}

InitName ==
  /\ source \in {ListSource(<<ListItem(t[1], 1), ListItem(t[2], 2)>>) :
                   t \in {u \in Titles \X Titles : u[1] # u[2]}}
  /\ total = 2
  /\ page_offset = 0
  /\ disk0 = EmptyDisk
  /\ Start

SpecName == InitName /\ [][Next]_vars

(***************************************************************************)
(* Runs over every TOC source of at most NormSize items, keys or lines.    *)
(***************************************************************************)
NormTitles == {<<"a">>, <<"b">>}

NormStarts == {1, 2}

BadItem == [ok |-> FALSE, title |-> <<>>, start |-> 0]

NormItems == {ListItem(t, n) : t \in NormTitles, n \in NormStarts} \cup {BadItem}

IntPair(key, n) == [key |-> key, kind |-> "int", start |-> n, sub |-> <<>>]

BadPair(key) == [key |-> key, kind |-> "bad", start |-> 0, sub |-> <<>>]

DictPair(key, sub) == [key |-> key, kind |-> "dict", start |-> 0, sub |-> sub]

\* the keys of a dict, nested ones included
RECURSIVE DictSize(_)
DictSize(d) ==
  IF d = <<>> THEN 0 ELSE 1 + DictSize(Head(d).sub) + DictSize(Tail(d))

\* the dicts of at most n keys in all; the keys of one dict are distinct
RECURSIVE Dicts(_)
Dicts(n) ==
  IF n = 0 THEN {<<>>}
  ELSE LET smaller == Dicts(n - 1)
           pairs == {IntPair(k, v) : k \in NormTitles, v \in NormStarts}
                      \cup {BadPair(k) : k \in NormTitles}
                      \cup {DictPair(k, d) : k \in NormTitles, d \in smaller}
       IN {<<>>} \cup
          {<<pr[1]>> \o pr[2] :
             pr \in {q \in pairs \X smaller :
                       /\ DictSize(<<q[1]>>) + DictSize(q[2]) <= n
                       /\ \A j \in 1..Len(q[2]) : q[2][j].key # q[1].key}}

TsvLines ==
  {<<"1", "\t", "a">>, <<"2", "\t", "b">>, <<" ", "2", "\t", "a", " ">>,
   <<"1", "\t", "b", "\t", "x">>, <<>>, <<"#", "1", "\t", "a">>,
   <<"x", "\t", "a">>, <<"1", " ", "a">>}

SeqsUpTo(S, n) == UNION {[1..m -> S] : m \in 0..n}

InitNorm ==
  /\ \/ \E items \in SeqsUpTo(NormItems, NormSize) : source = ListSource(items)
     \/ \E d \in Dicts(NormSize) : source = [form |-> "dict", items |-> d]
     \/ \E lines \in SeqsUpTo(TsvLines, NormSize) :
          source = [form |-> "tsv", items |-> lines]
  /\ total = 2
  /\ page_offset = 0
  /\ disk0 = EmptyDisk
  /\ Start

SpecNorm == InitNorm /\ [][Next]_vars

Spec == Init /\ [][Next]_vars

(***************************************************************************)
(* Properties of range resolution (split_pdf, lines 116-131).              *)
(***************************************************************************)
Finished == pc \in {"done", "failed"}

\* the range loop ran to its end without raising
ResolutionSucceeded ==
  \/ pc \in {"mkdir", "write", "index", "done"}
  \/ pc = "failed" /\ error.step \in {"mkdir", "chapter", "index"}

\* the resolved ranges that hold page p
Covering(p) == {k \in 1..Len(ranges) : ranges[k][2] <= p /\ p <= ranges[k][3]}

\* entry k and its successor have the same start page
SameStart(k) == k < Len(toc) /\ toc[k][2] = toc[k + 1][2]

\* the computed zero-based start of entry k lies outside the document
StartOutside(k) ==
  toc[k][2] + page_offset - 1 < 0 \/ toc[k][2] + page_offset - 1 >= total

First(S) == CHOOSE k \in S : \A j \in S : k <= j

\* C1 as stated: after a successful resolution there are N ranges, every page
\* 0..total-1 lies in exactly one of them, and the last ends at total-1
\* (stated here for the TOCs whose start pages are all >= 1).
C1_PartitionsWholeDocument ==
  /\ ResolutionSucceeded
  /\ \A k \in 1..Len(toc) : toc[k][2] >= 1
  =>
    /\ Len(ranges) = Len(toc)
    /\ \A p \in 0..(total - 1) : Cardinality(Covering(p)) = 1
    /\ ranges[Len(ranges)][3] = total - 1

\* C1 amended: after a successful resolution there are N ranges, every page
\* from the first chapter's computed start to total-1 lies in exactly one of
\* them, the pages before that start lie in none, and the last range ends at
\* total-1.
C1_PartitionsFromFirstStart ==
  ResolutionSucceeded =>
    /\ Len(ranges) = Len(toc)
    /\ Len(ranges) >= 1
    /\ \A p \in 0..(total - 1) :
         Cardinality(Covering(p)) =
           IF p >= toc[1][2] + page_offset - 1 THEN 1 ELSE 0
    /\ ranges[Len(ranges)][3] = total - 1

\* a successful resolution of three chapters that leaves leading pages out
C1_Witness ==
  /\ ResolutionSucceeded
  /\ Len(ranges) = 3
  /\ ranges[1][2] > 0

\* C2: after a successful resolution every range ends one page before the
\* next one starts.
C2_ConsecutiveRangesAdjacent ==
  ResolutionSucceeded =>
    \A k \in 1..(Len(ranges) - 1) : ranges[k][3] + 1 = ranges[k + 1][2]

\* a successful resolution of three chapters, the last one starting on the
\* last page (the largest end the clamp lets through)
C2_Witness ==
  /\ ResolutionSucceeded
  /\ Len(ranges) = 3
  /\ ranges[3][2] = total - 1

\* C3: every range appended lies inside the document and is not empty, its
\* start is start_page + page_offset - 1, and once resolution has succeeded
\* the last range ends at total-1 (so a one-entry TOC yields the one range
\* [start-1+offset, total-1]).
C3_RangesInsideDocument ==
  /\ \A k \in 1..Len(ranges) :
       /\ 0 <= ranges[k][2]
       /\ ranges[k][2] <= ranges[k][3]
       /\ ranges[k][3] <= total - 1
       /\ ranges[k][2] = toc[k][2] + page_offset - 1
       /\ ranges[k][1] = toc[k][1]
  /\ ResolutionSucceeded => ranges[Len(ranges)][3] = total - 1
  /\ ResolutionSucceeded /\ Len(toc) = 1 =>
       ranges = <<<<toc[1][1], toc[1][2] - 1 + page_offset, total - 1>>>>

\* a one-entry TOC resolved under a negative offset
C3_Witness ==
  /\ ResolutionSucceeded
  /\ Len(toc) = 1
  /\ page_offset < 0
  /\ ranges[1][2] < ranges[1][3]

\* C4 as stated: a TOC with two consecutive entries of the same start page
\* ends in the inverted-range error naming the earlier entry of such a pair
\* (stated here for the TOCs whose start pages are all >= 1).
C4_TieAlwaysInverted ==
  /\ Finished
  /\ \E k \in 1..Len(toc) : SameStart(k)
  /\ \A k \in 1..Len(toc) : toc[k][2] >= 1
  =>
    /\ error.kind = "EndBeforeStart"
    /\ \E k \in 1..Len(toc) : SameStart(k) /\ error.title = toc[k][1]

\* C4 amended: with k the earlier entry of the first pair of consecutive
\* entries of the same start page, no range is ever appended for entry k and
\* resolution fails; the error is the inverted-range error naming entry k when
\* the computed start of every entry up to k lies inside the document, and
\* otherwise the out-of-range error for the first entry whose start does not.
C4_TieFailsResolution ==
  (\E k \in 1..Len(toc) : SameStart(k)) =>
    LET k == First({n \in 1..Len(toc) : SameStart(n)})
        outside == {j \in 1..k : StartOutside(j)}
    IN /\ Len(ranges) < k
       /\ ~ResolutionSucceeded
       /\ pc = "failed" =>
            IF outside = {}
              THEN error = Raise("EndBeforeStart", "resolve", toc[k][1], 0)
              ELSE /\ error.kind = "OutOfRange"
                   /\ error.title = toc[First(outside)][1]

\* the inverted-range error for the second entry of three, the last two tied
C4_Witness ==
  /\ pc = "failed"
  /\ error.kind = "EndBeforeStart"
  /\ Len(toc) = 3
  /\ Len(ranges) = 1
  /\ SameStart(2)

\* C5 as stated: if some entry has a start page <= 0 or a computed start
\* >= total, the run ends in the out-of-range error naming such an entry and
\* its 1-based computed page.
C5_BadStartAlwaysOutOfRange ==
  LET bad(k) == toc[k][2] <= 0 \/ toc[k][2] + page_offset - 1 >= total IN
  Finished /\ (\E k \in 1..Len(toc) : bad(k)) =>
    /\ error.kind = "OutOfRange"
    /\ \E k \in 1..Len(toc) :
         bad(k) /\ error.title = toc[k][1] /\ error.page = toc[k][2] + page_offset

\* C5 amended: if the computed start start_page + page_offset - 1 of some
\* entry is < 0 or >= total, resolution fails before any output; with k the
\* first such entry, the error is the out-of-range error naming entry k and
\* the page start_page + page_offset, unless an entry before k has the same
\* start page as its successor, and then it is the inverted-range error.
\* The out-of-range error is raised for no other entry.
C5_OutsideStartFailsResolution ==
  /\ error.kind = "OutOfRange" =>
       \E k \in 1..Len(toc) :
         /\ StartOutside(k)
         /\ error = Raise("OutOfRange", "resolve", toc[k][1], toc[k][2] + page_offset)
  /\ Finished /\ (\E k \in 1..Len(toc) : StartOutside(k)) =>
    LET k == First({n \in 1..Len(toc) : StartOutside(n)}) IN
    /\ pc = "failed"
    /\ error.step = "resolve"
    /\ Len(ranges) < k
    /\ disk = disk0
    /\ IF \E j \in 1..(k - 1) : SameStart(j)
         THEN error.kind = "EndBeforeStart"
         ELSE error = Raise("OutOfRange", "resolve", toc[k][1],
                            toc[k][2] + page_offset)

\* the out-of-range error for a later entry, under a positive offset
C5_Witness ==
  /\ pc = "failed"
  /\ error.kind = "OutOfRange"
  /\ page_offset > 0
  /\ Len(ranges) >= 1
  /\ error.page = total + 1

(***************************************************************************)
(* Properties of the write phase (split_pdf, lines 133-151).               *)
(***************************************************************************)
\* C6: until every entry is resolved the output directory is as it was before
\* the run, and it still is after a run that ended in a loading, empty-TOC,
\* out-of-range or inverted-range error.
C6_NoOutputBeforeResolution ==
  /\ pc \in {"load", "split", "resolve"} => disk = disk0
  /\ pc = "failed" /\ error.step \in {"load", "split", "resolve"} => disk = disk0
  /\ disk # disk0 => Len(toc) >= 1 /\ Len(ranges) = Len(toc)

\* the inverted-range error at the second entry, the directory not yet made
C6_Witness ==
  /\ pc = "failed"
  /\ error.kind = "EndBeforeStart"
  /\ Len(ranges) >= 1
  /\ disk0 = EmptyDisk

NameOf(k) == infer_filename(k, ranges[k][1])

\* the file chapter k writes
FileOf(k) == ChapterFile(ranges[k][2], ranges[k][3])

\* the last of the chapters 1..n that writes the file called name
LastNamed(name, n) ==
  CHOOSE m \in 1..n : NameOf(m) = name /\ \A j \in (m + 1)..n : NameOf(j) # name

ExampleIndexText ==
  <<"p", "d", "f", "_", "s", "t", "a", "r", "t", "\t", "p", "d", "f",
    "_", "e", "n", "d", "\t", "b", "o", "o", "k", "_", "s", "t", "a",
    "r", "t", "\t", "t", "i", "t", "l", "e", "\n", "1", "7", "\t",
    "4", "9", "\t", "1", "\t", "I", "n", "t", "r", "o", "d", "u",
    "c", "t", "i", "o", "n", "\n", "5", "0", "\t", "6", "0", "0",
    "\t", "3", "4", "\t", "I", "n", "t", "e", "l", "l", "i", "g",
    "e", "n", "t", " ", "A", "g", "e", "n", "t", "s", "\n">>

RECURSIVE Concat(_)
Concat(seqs) == IF seqs = <<>> THEN <<>> ELSE Head(seqs) \o Concat(Tail(seqs))

\* C9: after a successful run the index is the header line followed by one
\* line per range, in order: pdf_start+1, pdf_end+1, the book start page and
\* the title of chapter i, and nothing else (nothing of an earlier index).
\* The run of TOC [(Introduction,1),(Intelligent Agents,34)], 600 pages,
\* offset 16 resolves (16,48),(49,599) and writes rows 17/49/1 and 50/600/34.
C9_IndexListsRanges ==
  pc = "done" =>
    /\ disk.index.exists
    /\ Len(ranges) = Len(toc)
    /\ LET row(k) == IntStr(ranges[k][2] + 1) \o <<"\t">>
                       \o IntStr(ranges[k][3] + 1) \o <<"\t">>
                       \o IntStr(toc[k][2]) \o <<"\t">>
                       \o toc[k][1] \o <<"\n">>
       IN disk.index.text =
            IndexHeader \o Concat([k \in 1..Len(ranges) |-> row(k)])
    /\ source = ExampleRun.source =>
         /\ ranges = <<<<Introduction, 16, 48>>, <<IntelligentAgents, 49, 599>>>>
         /\ disk.index.text = ExampleIndexText

\* the example run done, in a directory that held an earlier index
C9_Witness ==
  /\ pc = "done"
  /\ source = ExampleRun.source
  /\ disk0 = UsedDisk

(***************************************************************************)
(* Properties of the file names (infer_filename).                          *)
(***************************************************************************)
\* C8 as stated: after a successful run over pairwise distinct titles the
\* chapters' file names are pairwise distinct and each holds its chapter.
C8_NamesDistinct ==
  /\ pc = "done"
  /\ \A j, k \in 1..Len(toc) : j # k => toc[j][1] # toc[k][1]
  => /\ \A j, k \in 1..Len(ranges) : j # k => NameOf(j) # NameOf(k)
     /\ \A k \in 1..Len(ranges) :
          NameOf(k) \in DOMAIN disk.files /\ disk.files[NameOf(k)] = FileOf(k)

\* the stripped title is a number, whitespace and a remainder
Numbered(title) == ChapterMatch(Strip(title))

\* both titles are numbered, with the same number and sanitized remainder
SameNumberAndRemainder(t, u) ==
  /\ Numbered(t)
  /\ Numbered(u)
  /\ ParseInt(ChapterDigits(Strip(t))) = ParseInt(ChapterDigits(Strip(u)))
  /\ sanitize_filename(ChapterRest(Strip(t))) = sanitize_filename(ChapterRest(Strip(u)))

\* C8 amended: after a successful run two chapters have the same file name
\* exactly when both titles are numbered (number, whitespace, remainder) with
\* the same number and the same sanitized remainder; every name of the run
\* holds the file of the last chapter of that name, so a chapter's file is
\* overwritten only by a later chapter of the same number and remainder.
C8_NamesDistinctUnlessSameNumber ==
  pc = "done" =>
    /\ \A j, k \in 1..Len(ranges) :
         j # k => (NameOf(j) = NameOf(k)
                     <=> SameNumberAndRemainder(ranges[j][1], ranges[k][1]))
    /\ \A k \in 1..Len(ranges) :
         /\ NameOf(k) \in DOMAIN disk.files
         /\ disk.files[NameOf(k)] = FileOf(LastNamed(NameOf(k), Len(ranges)))
         /\ (\A j \in 1..Len(ranges) :
               j # k => ~SameNumberAndRemainder(ranges[j][1], ranges[k][1]))
              => disk.files[NameOf(k)] = FileOf(k)

\* a successful run over two titles of the same number, remainders differing
C8_Witness ==
  /\ pc = "done"
  /\ Len(ranges) = 2
  /\ Numbered(ranges[1][1]) /\ Numbered(ranges[2][1])
  /\ ParseInt(ChapterDigits(Strip(ranges[1][1])))
       = ParseInt(ChapterDigits(Strip(ranges[2][1])))
  /\ NameOf(1) # NameOf(2)
  /\ Cardinality(DOMAIN disk.files) = 2

(***************************************************************************)
(* Properties of TOC normalization (load_toc_from_json, load_toc_from_tsv).*)
(***************************************************************************)
\* the leaves of a dict in depth-first order, as <<title, start>>
RECURSIVE Leaves(_)
Leaves(d) ==
  Concat([k \in 1..Len(d) |->
            IF d[k].kind = "dict" THEN Leaves(d[k].sub)
            ELSE <<<<d[k].key, d[k].start>>>>])

\* the entries of a source in the order they are found
Found(src) ==
  CASE src.form = "list" -> [k \in 1..Len(src.items) |->
                               <<src.items[k].title, src.items[k].start>>]
    [] src.form = "dict" -> Leaves(src.items)
    [] src.form = "tsv" -> TsvEntries(src.items)

Bijections(n) == {f \in [1..n -> 1..n] : \A a, b \in 1..n : a # b => f[a] # f[b]}

\* out holds the entries of in, start pages non-decreasing, entries of equal
\* start page in the order they have in `in`
StableSorted(in, out) ==
  /\ Len(out) = Len(in)
  /\ \E f \in Bijections(Len(in)) :
       /\ \A k \in 1..Len(in) : out[k] = in[f[k]]
       /\ \A j, k \in 1..Len(in) :
            j < k => \/ out[j][2] < out[k][2]
                     \/ out[j][2] = out[k][2] /\ f[j] < f[k]

NonDecreasing(t) == \A k \in 1..(Len(t) - 1) : t[k][2] <= t[k + 1][2]

Loaded == pc # "load" /\ error.step # "load"

\* C10: a loaded TOC is the stable ascending sort by start page of the
\* entries found in the source; it equals what the list form of the same
\* entries in the same order loads to, and a source whose entries are already
\* in ascending order loads unchanged.
C10_LoadIsStableSort ==
  Loaded =>
    /\ StableSorted(Found(source), toc)
    /\ toc = load_toc_from_json(
               ListSource([k \in 1..Len(Found(source)) |->
                             ListItem(Found(source)[k][1], Found(source)[k][2])]))
    /\ NonDecreasing(Found(source)) => toc = Found(source)

\* a nested dict whose leaves are found out of order, two of them tied
C10_Witness ==
  /\ Loaded
  /\ source.form = "dict"
  /\ \E k \in 1..Len(source.items) : source.items[k].kind = "dict"
  /\ Len(toc) = 3
  /\ toc # Found(source)
  /\ toc[1][2] = toc[2][2]
  /\ toc[1][1] # toc[2][1]

=============================================================================
